---- MODULE Spec2Model ----
(***************************************************************************)
(* Model of the activity aggregation pipeline of package handlers          *)
(* (src/handlers.go): the pure week bucketing (PreviousSaturday,           *)
(* ComputeWeeklySummaries) and the concurrent fan-out FetchUsersActivity   *)
(* with its composition FetchUserHistory.                                  *)
(*                                                                         *)
(* Representation                                                          *)
(*  - a time.Time is [abs, off]: abs = hours since Go's zero time          *)
(*    (0001-01-01 00:00 UTC, a Monday), off = the zone offset in hours of  *)
(*    its Location.  == on time.Time compares both fields.                 *)
(*  - a time.Duration is kept in seconds, a distance in metres (integer).  *)
(*  - a nil slice is the empty sequence <<>> (both have length 0).         *)
(*  - an error value is [nil, msg, call]; call identifies the FetchActivities *)
(*    invocation whose errors.New allocated it (0: allocated elsewhere).   *)
(***************************************************************************)
EXTENDS Integers, Sequences, FiniteSets, TLC

\* ------------------------------------------------------------------ bounds
MaxUsers == 2

\* PreviousSaturday is applied to the instants of MaxDays days, hour by hour,
\* in the zones of offset -MaxOffset .. MaxOffset hours.
MaxDays == 8

MaxOffset == 2

\* ComputeWeeklySummaries is applied to slices of at most MaxActs activities.
MaxActs == 3

\* --------------------------------------------------------------- time.Time
HoursPerDay == 24

Saturday == 6

Time(abs, off) == [abs |-> abs, off |-> off]

\* time.Time.Weekday: day of the week of the wall clock in t's own location,
\* Sunday = 0 .. Saturday = 6.
Weekday(t) == (((t.abs + t.off) \div HoursPerDay) + 1) % 7

\* time.Time.Add: moves the instant, keeps the location.
Add(t, h) == [abs |-> t.abs + h, off |-> t.off]

\* time.Time.Truncate(d): rounds the instant down to a multiple of d since the
\* zero time (an absolute, UTC-based computation), keeps the location.
Truncate(t, d) == [abs |-> t.abs - (t.abs % d), off |-> t.off]

\* time.Time.Before: compares instants only.
Before(s, t) == s.abs < t.abs

PreviousSaturday(d) ==
    LET daysToGoBack == IF Weekday(d) = Saturday THEN 0 ELSE Weekday(d) + 1
    IN  Truncate(Add(d, (-daysToGoBack) * HoursPerDay), HoursPerDay)

\* ------------------------------------------------------------- activities
Run == "Run"

Ride == "Ride"

\* strava.ActivitySummary, the fields the package reads.
Activity(type, start, elapsed, dist, athlete) ==
    [Type |-> type, StartDate |-> start, ElapsedTime |-> elapsed,
     Distance |-> dist, Athlete |-> athlete]

\* A nil *strava.ActivitySummary: the entry has no field that can be read.
NilActivity == Activity("<nil>", Time(0, 0), 0, 0, "")

\* A filter that keeps every activity.
FilterNothing(activities) == activities

\* The run filter of ComputeWeeklySummaries.
RECURSIVE FilterRuns(_)
FilterRuns(activities) ==
    IF activities = <<>> THEN <<>>
    ELSE LET act == Head(activities)
             rest == FilterRuns(Tail(activities))
         IN  IF act.Type = Run THEN <<act>> \o rest ELSE rest

\* sort.Slice with less = StartDate.Before; for slices shorter than 12 elements
\* the library runs an insertion sort, which is what is computed here.
RECURSIVE Insert(_, _)
Insert(sorted, a) ==
    IF sorted = <<>> THEN <<a>>
    ELSE LET last == sorted[Len(sorted)]
         IN  IF Before(a.StartDate, last.StartDate)
             THEN Insert(SubSeq(sorted, 1, Len(sorted) - 1), a) \o <<last>>
             ELSE sorted \o <<a>>

RECURSIVE SortByStartDate(_)
SortByStartDate(runs) ==
    IF runs = <<>> THEN <<>>
    ELSE Insert(SortByStartDate(SubSeq(runs, 1, Len(runs) - 1)), runs[Len(runs)])

\* A bucketing loop that never starts a new week.
BucketWeeksNoSplit(runs, curWeekStart, thisWeek, allWeeks) ==
    Append(allWeeks, thisWeek \o runs)

\* The bucketing loop: walks the sorted runs, starts a new week whenever the
\* week start differs (==) from the current one.
RECURSIVE BucketWeeks(_, _, _, _)
BucketWeeks(runs, curWeekStart, thisWeek, allWeeks) ==
    IF runs = <<>>
    THEN IF thisWeek # <<>> THEN Append(allWeeks, thisWeek) ELSE allWeeks
    ELSE LET run == Head(runs)
             weekStart == PreviousSaturday(run.StartDate)
         IN  IF curWeekStart = weekStart
             THEN BucketWeeks(Tail(runs), curWeekStart, Append(thisWeek, run), allWeeks)
             ELSE BucketWeeks(Tail(runs), weekStart, <<run>>, Append(allWeeks, thisWeek))

RECURSIVE SumDistance(_)
SumDistance(w) == IF w = <<>> THEN 0 ELSE Head(w).Distance + SumDistance(Tail(w))

RECURSIVE SumElapsed(_)
SumElapsed(w) == IF w = <<>> THEN 0 ELSE Head(w).ElapsedTime + SumElapsed(Tail(w))

\* A summary whose Time is the elapsed time of the week's first run only.
SummariseFirstRunOnly(w) ==
    [Date |-> PreviousSaturday(w[1].StartDate), Count |-> Len(w),
     Distance |-> SumDistance(w), Time |-> w[1].ElapsedTime]

\* WeekSummary of one bucket.
Summarise(w) ==
    [Date |-> PreviousSaturday(w[1].StartDate), Count |-> Len(w),
     Distance |-> SumDistance(w), Time |-> SumElapsed(w)]

ComputeWeeklySummaries(activities) ==
    LET runs == FilterRuns(activities)
    IN  IF Len(runs) = 0 THEN <<>>
        ELSE LET sorted == SortByStartDate(runs)
                 allWeeks == BucketWeeks(sorted, PreviousSaturday(sorted[1].StartDate),
                                         <<>>, <<>>)
             IN  [n \in 1..Len(allWeeks) |-> Summarise(allWeeks[n])]

\* ------------------------------------------------------------------ errors
NilError == [nil |-> TRUE, msg |-> "", call |-> 0]

\* errors.New(msg) evaluated by FetchActivities invocation `call`.
NewError(msg, call) == [nil |-> FALSE, msg |-> msg, call |-> call]

\* ------------------------------------------------------------ test fixtures
\* 2018-03-03 00:00 UTC, a Saturday: 736755 days after the zero time.
saturday == Time(736755 * HoursPerDay, 0)

monday == Add(saturday, 2 * HoursPerDay)

nextSaturday == Add(saturday, 7 * HoursPerDay)

morning == 8

afternoon == 18

short == 5600

long == 11200

run(t, seconds, distance) == Activity(Run, t, seconds, distance, "james")

ride(t, seconds, distance) == Activity(Ride, t, seconds, distance, "")

actsA ==
    << run(nextSaturday, 3600, short),
       ride(Add(monday, morning), 1200, short),
       run(Add(saturday, afternoon), 1320, long) >>

actsB == << run(Add(monday, morning), 1200, short) >>

\* The tokens the fetcher knows; any other token is "not found".  The token
\* "hang" stands for an external call that never returns.
Tokens == {"a", "b", "empty", "mystery", "hang"}

Hangs(token) == token = "hang"

\* stubFetcher.FetchActivities: the (acts, err) pair returned for a token by
\* invocation `call`.
FetchActivities(token, call) ==
    IF token = "a" THEN [acts |-> actsA, err |-> NilError]
    ELSE IF token = "b" THEN [acts |-> actsB, err |-> NilError]
    ELSE IF token = "empty" THEN [acts |-> <<>>, err |-> NilError]
    ELSE [acts |-> <<>>, err |-> NewError("not found", call)]

User(first, token) == [FirstName |-> first, StravaToken |-> token]

AllUsers ==
    { User("james2", "a"), User("kim", "b"), User("lee", "a"),
      User("olga", "empty"), User("mo", "mystery"), User("ned", "hang") }

\* ---------------------------------------------------------------- state
VARIABLES
    users,      \* the users argument
    pc,         \* position of the caller: "launch", "recv", "returned", "done"
    k,          \* index of the range loop the caller is in
    gpc,        \* position of each user's goroutine
    gacts,      \* acts of each goroutine
    gerr,       \* err of each goroutine
    cs,         \* buffer of each user's channel
    closed,     \* whether each user's channel is closed
    result,     \* result of FetchUsersActivity
    err,        \* error returned by FetchUsersActivity
    umt,        \* reports returned by FetchUserHistory
    herr,       \* error returned by FetchUserHistory
    calls,      \* number of FetchActivities invocations per user
    completed,  \* users in the order their FetchActivities returned
    d,          \* PreviousSaturday: the argument
    weekStart,  \* PreviousSaturday: the value returned
    wpc,        \* PreviousSaturday: "idle", "call", "done"
    activities, \* ComputeWeeklySummaries: the caller's slice
    input,      \* ComputeWeeklySummaries: the caller's slice as it was passed
    runs,       \* ComputeWeeklySummaries: the local slice runs
    summaries,  \* ComputeWeeklySummaries: the value returned
    spc,        \* ComputeWeeklySummaries: "idle", "filter", "check", "bucket", "done", "panic"
    variant,    \* which WaitGroup fan-out is running, "" when none
    wg,         \* the counter of the sync.WaitGroup
    fail,       \* the buffered channel fail
    failSent,   \* the goroutines that sent on fail, in the order they sent
    wclosed,    \* whether the channel closed after wg.Wait() is closed
    rchan,      \* FetchUsersActivity2: the buffered channel rchan
    slots,      \* DoAsync: result; FetchUsersActivity3: the sync.Map m
    gres,       \* FetchUserHistory2: each goroutine's pointer result
    mts,        \* FetchUserHistory2: the slice mts
    hclosed     \* FetchUserHistory2: whether the channel results is closed

altVars == << variant, wg, fail, failSent, wclosed, rchan, slots, gres, mts, hclosed >>

fanVars == << users, pc, k, gpc, gacts, gerr, cs, closed, result, err, umt, herr,
              calls, completed, altVars >>

weekVars == << d, weekStart, wpc >>

sumVars == << activities, input, runs, summaries, spc >>

vars == << fanVars, weekVars, sumVars >>

\* No call of PreviousSaturday is in progress.
WeekIdle ==
    /\ d = Time(0, 0)
    /\ weekStart = Time(0, 0)
    /\ wpc = "idle"

\* No call of ComputeWeeklySummaries is in progress.
SumIdle ==
    /\ activities = <<>>
    /\ input = <<>>
    /\ runs = <<>>
    /\ summaries = <<>>
    /\ spc = "idle"

\* No call of DoAsync, FetchUsersActivity2, FetchUsersActivity3 or
\* FetchUserHistory2 is in progress.
AltIdle ==
    /\ variant = ""
    /\ wg = 0
    /\ fail = <<>>
    /\ failSent = <<>>
    /\ wclosed = FALSE
    /\ rchan = <<>>
    /\ slots = <<>>
    /\ gres = <<>>
    /\ mts = <<>>
    /\ hclosed = FALSE

\* No call of FetchUserHistory is in progress.
FanIdle ==
    /\ AltIdle
    /\ users = <<>>
    /\ pc = "idle"
    /\ k = 1
    /\ gpc = <<>>
    /\ gacts = <<>>
    /\ gerr = <<>>
    /\ cs = <<>>
    /\ closed = <<>>
    /\ result = <<>>
    /\ err = NilError
    /\ umt = <<>>
    /\ herr = NilError
    /\ calls = <<>>
    /\ completed = <<>>

N == Len(users)

Idx == 1..N

\* make(chan []*strava.ActivitySummary, 1)
ChanCap == 1

UsersUpTo(n) == UNION { [1..m -> AllUsers] : m \in 0..n }

Init ==
    /\ users \in UsersUpTo(MaxUsers)
    /\ pc = "launch"
    /\ k = 1
    /\ gpc = [i \in DOMAIN users |-> "none"]
    /\ gacts = [i \in DOMAIN users |-> <<>>]
    /\ gerr = [i \in DOMAIN users |-> NilError]
    /\ cs = [i \in DOMAIN users |-> <<>>]
    /\ closed = [i \in DOMAIN users |-> FALSE]
    /\ result = <<>>
    /\ err = NilError
    /\ umt = <<>>
    /\ herr = NilError
    /\ calls = [i \in DOMAIN users |-> 0]
    /\ completed = <<>>
    /\ AltIdle
    /\ WeekIdle
    /\ SumIdle

\* ------------------------------------------------- FetchUsersActivity: caller
\* A fan-out that starts a fetch only once the previous one is over.
LaunchAfterPrevious ==
    /\ pc = "launch"
    /\ k <= N
    /\ IF k = 1 THEN TRUE ELSE gpc[k - 1] = "done"
    /\ gpc' = [gpc EXCEPT ![k] = "ready"]
    /\ k' = k + 1
    /\ UNCHANGED << weekVars, sumVars, altVars, users, pc, gacts, gerr, cs, closed, result, err, umt, herr,
                    calls, completed >>

\* One iteration of the first loop: make the channel, start the goroutine.
Launch ==
    /\ pc = "launch"
    /\ k <= N
    /\ gpc' = [gpc EXCEPT ![k] = "ready"]
    /\ k' = k + 1
    /\ UNCHANGED << weekVars, sumVars, altVars, users, pc, gacts, gerr, cs, closed, result, err, umt, herr,
                    calls, completed >>

\* The first loop is over; the second loop starts.
LaunchDone ==
    /\ pc = "launch"
    /\ k > N
    /\ pc' = "recv"
    /\ k' = 1
    /\ UNCHANGED << weekVars, sumVars, altVars, users, gpc, gacts, gerr, cs, closed, result, err, umt, herr,
                    calls, completed >>

\* A collector that takes a nil list for a failed fetch.
RecvValNilIsFailure ==
    /\ pc = "recv"
    /\ k <= N
    /\ cs[k] # <<>>
    /\ IF Head(cs[k]) = <<>>
       THEN /\ result' = <<>>
            /\ err' = NewError("Failed", 0)
            /\ pc' = "returned"
            /\ UNCHANGED k
       ELSE /\ result' = Append(result, Head(cs[k]))
            /\ k' = k + 1
            /\ UNCHANGED << err, pc >>
    /\ cs' = [cs EXCEPT ![k] = Tail(cs[k])]
    /\ UNCHANGED << weekVars, sumVars, altVars, users, gpc, gacts, gerr, closed, umt, herr, calls,
                    completed >>

\* A collector that takes whichever value is ready (completion order).
RecvValAny ==
    /\ pc = "recv"
    /\ k <= N
    /\ \E j \in Idx :
         /\ cs[j] # <<>>
         /\ result' = Append(result, Head(cs[j]))
         /\ cs' = [cs EXCEPT ![j] = Tail(cs[j])]
    /\ k' = k + 1
    /\ UNCHANGED << weekVars, sumVars, altVars, users, pc, gpc, gacts, gerr, closed, err, umt, herr, calls,
                    completed >>

\* val, ok := <-c with ok = true: a value is buffered.
RecvVal ==
    /\ pc = "recv"
    /\ k <= N
    /\ cs[k] # <<>>
    /\ result' = Append(result, Head(cs[k]))
    /\ cs' = [cs EXCEPT ![k] = Tail(cs[k])]
    /\ k' = k + 1
    /\ UNCHANGED << weekVars, sumVars, altVars, users, pc, gpc, gacts, gerr, closed, err, umt, herr, calls,
                    completed >>

\* A collector that fails on whichever unread channel closes first.
RecvClosedAny ==
    /\ pc = "recv"
    /\ \E j \in k..N :
         /\ cs[j] = <<>>
         /\ closed[j]
         /\ k' = j
    /\ result' = <<>>
    /\ err' = NewError("Failed", 0)
    /\ pc' = "returned"
    /\ UNCHANGED << weekVars, sumVars, altVars, users, gpc, gacts, gerr, cs, closed, umt, herr, calls,
                    completed >>

\* A collector that keeps the lists received so far when it fails.
RecvClosedPartial ==
    /\ pc = "recv"
    /\ k <= N
    /\ cs[k] = <<>>
    /\ closed[k]
    /\ err' = NewError("Failed", 0)
    /\ pc' = "returned"
    /\ UNCHANGED << weekVars, sumVars, altVars, users, k, gpc, gacts, gerr, cs, closed, result, umt, herr,
                    calls, completed >>

\* A collector whose receive does not block (select with a default case).
RecvClosedNonBlocking ==
    /\ pc = "recv"
    /\ k <= N
    /\ cs[k] = <<>>
    /\ result' = <<>>
    /\ err' = NewError("Failed", 0)
    /\ pc' = "returned"
    /\ UNCHANGED << weekVars, sumVars, altVars, users, k, gpc, gacts, gerr, cs, closed, umt, herr, calls,
                    completed >>

\* val, ok := <-c with ok = false: the channel is closed and empty.
RecvClosed ==
    /\ pc = "recv"
    /\ k <= N
    /\ cs[k] = <<>>
    /\ closed[k]
    /\ result' = <<>>
    /\ err' = NewError("Failed", 0)
    /\ pc' = "returned"
    /\ UNCHANGED << weekVars, sumVars, altVars, users, k, gpc, gacts, gerr, cs, closed, umt, herr, calls,
                    completed >>

\* The second loop is over: return result, nil.
RecvDone ==
    /\ pc = "recv"
    /\ k > N
    /\ pc' = "returned"
    /\ UNCHANGED << weekVars, sumVars, altVars, users, k, gpc, gacts, gerr, cs, closed, result, err, umt, herr,
                    calls, completed >>

\* --------------------------------------------- FetchUsersActivity: goroutine
\* The goroutine is scheduled and calls fetcher.FetchActivities.
Call(i) ==
    /\ gpc[i] = "ready"
    /\ gpc' = [gpc EXCEPT ![i] = "fetching"]
    /\ calls' = [calls EXCEPT ![i] = calls[i] + 1]
    /\ UNCHANGED << weekVars, sumVars, altVars, users, pc, k, gacts, gerr, cs, closed, result, err, umt, herr,
                    completed >>

\* Goroutines that keep the fetched list in one variable they all share.
ReturnOkSharedActs(i) ==
    /\ gpc[i] = "fetching"
    /\ ~Hangs(users[i].StravaToken)
    /\ LET r == FetchActivities(users[i].StravaToken, i)
       IN  /\ r.err.nil
           /\ gacts' = [j \in Idx |-> r.acts]
    /\ gpc' = [gpc EXCEPT ![i] = "send"]
    /\ completed' = Append(completed, i)
    /\ UNCHANGED << weekVars, sumVars, altVars, users, pc, k, gerr, cs, closed, result, err, umt, herr, calls >>

\* FetchActivities returns with err == nil.
ReturnOk(i) ==
    /\ gpc[i] = "fetching"
    /\ ~Hangs(users[i].StravaToken)
    /\ LET r == FetchActivities(users[i].StravaToken, i)
       IN  /\ r.err.nil
           /\ gacts' = [gacts EXCEPT ![i] = r.acts]
    /\ gpc' = [gpc EXCEPT ![i] = "send"]
    /\ completed' = Append(completed, i)
    /\ UNCHANGED << weekVars, sumVars, altVars, users, pc, k, gerr, cs, closed, result, err, umt, herr, calls >>

\* A goroutine that calls FetchActivities again after a failure.
ReturnErrRetry(i) ==
    /\ gpc[i] = "fetching"
    /\ ~Hangs(users[i].StravaToken)
    /\ LET r == FetchActivities(users[i].StravaToken, i)
       IN  /\ ~r.err.nil
           /\ gerr' = [gerr EXCEPT ![i] = r.err]
    /\ gpc' = [gpc EXCEPT ![i] = IF calls[i] < 2 THEN "ready" ELSE "closing"]
    /\ completed' = Append(completed, i)
    /\ UNCHANGED << weekVars, sumVars, altVars, users, pc, k, gacts, cs, closed, result, err, umt, herr, calls >>

\* FetchActivities returns with err != nil: the goroutine returns.
ReturnErr(i) ==
    /\ gpc[i] = "fetching"
    /\ ~Hangs(users[i].StravaToken)
    /\ LET r == FetchActivities(users[i].StravaToken, i)
       IN  /\ ~r.err.nil
           /\ gerr' = [gerr EXCEPT ![i] = r.err]
    /\ gpc' = [gpc EXCEPT ![i] = "closing"]
    /\ completed' = Append(completed, i)
    /\ UNCHANGED << weekVars, sumVars, altVars, users, pc, k, gacts, cs, closed, result, err, umt, herr, calls >>

\* c <- acts on an unbuffered channel: proceeds only while the collector is
\* receiving from this channel, and hands the value over.
SendUnbuffered(i) ==
    /\ gpc[i] = "send"
    /\ ~closed[i]
    /\ pc = "recv"
    /\ k = i
    /\ result' = Append(result, gacts[i])
    /\ k' = k + 1
    /\ gpc' = [gpc EXCEPT ![i] = "closing"]
    /\ UNCHANGED << weekVars, sumVars, altVars, users, pc, gacts, gerr, cs, closed, err, umt, herr, calls,
                    completed >>

\* c <- acts: proceeds when the buffer has room.
Send(i) ==
    /\ gpc[i] = "send"
    /\ ~closed[i]
    /\ Len(cs[i]) < ChanCap
    /\ cs' = [cs EXCEPT ![i] = Append(cs[i], gacts[i])]
    /\ gpc' = [gpc EXCEPT ![i] = "closing"]
    /\ UNCHANGED << weekVars, sumVars, altVars, users, pc, k, gacts, gerr, closed, result, err, umt, herr,
                    calls, completed >>

\* A goroutine that returns without closing its channel.
CloseForgotten(i) ==
    /\ gpc[i] = "closing"
    /\ gpc' = [gpc EXCEPT ![i] = "done"]
    /\ UNCHANGED << weekVars, sumVars, altVars, users, pc, k, gacts, gerr, cs, closed, result, err, umt, herr,
                    calls, completed >>

\* defer close(c): runs when the goroutine function returns.
Close(i) ==
    /\ gpc[i] = "closing"
    /\ ~closed[i]
    /\ closed' = [closed EXCEPT ![i] = TRUE]
    /\ gpc' = [gpc EXCEPT ![i] = "done"]
    /\ UNCHANGED << weekVars, sumVars, altVars, users, pc, k, gacts, gerr, cs, result, err, umt, herr, calls,
                    completed >>

\* ----------------------------------------------------------- FetchUserHistory
\* A report named after the athlete of the fetched activities.
TrackingNameFromAthlete(u, act) == IF act = <<>> THEN "" ELSE act[1].Athlete

\* Name of the report of user u whose fetched activities are act.
TrackingName(u, act) == u.FirstName

UserMarathonTracking(u, act) ==
    [Name |-> TrackingName(u, act), Weeks |-> ComputeWeeklySummaries(act)]

\* A FetchUserHistory that does not look at err.
FetchUserHistoryIgnoresErr ==
    /\ pc = "returned"
    /\ umt' = [i \in 1..Len(result) |-> UserMarathonTracking(users[i], result[i])]
    /\ herr' = NilError
    /\ pc' = "done"
    /\ UNCHANGED << weekVars, sumVars, altVars, users, k, gpc, gacts, gerr, cs, closed, result, err, calls,
                    completed >>

\* FetchUsersActivity has returned (acts, err) = (result, err); the rest of
\* FetchUserHistory runs.
FetchUserHistory ==
    /\ pc = "returned"
    /\ IF ~err.nil
       THEN /\ umt' = <<>>
            /\ herr' = err
       ELSE /\ umt' = [i \in 1..Len(result) |-> UserMarathonTracking(users[i], result[i])]
            /\ herr' = NilError
    /\ pc' = "done"
    /\ UNCHANGED << weekVars, sumVars, altVars, users, k, gpc, gacts, gerr, cs, closed, result, err, calls,
                    completed >>

\* The steps of FetchUsersActivity: its caller-side loops and its goroutines.
FetchUsersActivity ==
    \/ Launch
    \/ LaunchDone
    \/ RecvVal
    \/ RecvClosed
    \/ RecvDone
    \/ \E i \in Idx : Call(i)
    \/ \E i \in Idx : ReturnOk(i)
    \/ \E i \in Idx : ReturnErr(i)
    \/ \E i \in Idx : Send(i)
    \/ \E i \in Idx : Close(i)

Next ==
    \/ FetchUsersActivity
    \/ FetchUserHistory

Spec == Init /\ [][Next]_vars

\* The Go scheduler runs every runnable goroutine eventually and an external
\* call that is not hung returns: as long as some step of FetchUsersActivity
\* (of its caller-side loops or of a goroutine) can be taken, one is taken.
\* Every step moves the caller or a goroutine forward, so this is all the
\* fairness the properties below need.
FairSpec == Spec /\ WF_vars(FetchUsersActivity)

TypeOK ==
    /\ pc \in {"launch", "recv", "returned", "done"}
    /\ k \in 1..(N + 1)
    /\ \A i \in Idx : gpc[i] \in {"none", "ready", "fetching", "send", "closing", "done"}
    /\ \A i \in Idx : Len(cs[i]) <= ChanCap

\* ------------------------------------------------------------- properties
Token(i) == users[i].StravaToken

\* What the fetcher answers for user i.
Outcome(i) == FetchActivities(Token(i), i)

Succeeds(i) == ~Hangs(Token(i)) /\ Outcome(i).err.nil

Fails(i) == ~Hangs(Token(i)) /\ ~Outcome(i).err.nil

\* FetchUsersActivity has returned to its caller.
Returned == pc \in {"returned", "done"}

ErrFailed == NewError("Failed", 0)

\* Pending -> Succeeded | Failed.
FetchState(i) ==
    IF gpc[i] \in {"none", "ready", "fetching"} THEN "Pending"
    ELSE IF gerr[i].nil THEN "Succeeded" ELSE "Failed"

\* The users whose FetchActivities has returned an error so far.
FailedSoFar == { i \in Idx : ~gerr[i].nil }

\* The user whose fetch was the first to fail, by completion time.
FirstFailed ==
    LET n == CHOOSE m \in 1..Len(completed) :
                 /\ completed[m] \in FailedSoFar
                 /\ \A l \in 1..(m - 1) : completed[l] \notin FailedSoFar
    IN  completed[n]

\* C1: whenever FetchUsersActivity returns without error, the result has
\* len(users) entries and result[i] is the list fetched for users[i]'s token,
\* whatever the completion order of the goroutines.
C1_OrderPreserved ==
    (Returned /\ err.nil) =>
        /\ Len(result) = N
        /\ \A i \in Idx : result[i] = Outcome(i).acts

\* The second user's fetch completed first and the lists differ.
C1_Witness ==
    /\ Returned /\ err.nil
    /\ N >= 2
    /\ completed[1] = 2
    /\ result[1] # result[2]

\* C2: FetchUsersActivity returns (nil, non-nil error) exactly when some fetch
\* has returned an error; otherwise the error is nil and every list is there.
C2_AllOrNothing ==
    Returned =>
        /\ ~err.nil <=> (FailedSoFar # {})
        /\ ~err.nil => result = <<>>
        /\ err.nil => Len(result) = N

\* A list had been received from the first user before the second one failed.
C2_Witness ==
    /\ Returned /\ ~err.nil
    /\ k = 2
    /\ Succeeds(1) /\ Outcome(1).acts # <<>>
    /\ result = <<>>

\* C3 as stated: the returned error is (or wraps) the error of the fetch that
\* failed first by completion time.
C3_CarriesFirstFailure ==
    (Returned /\ ~err.nil) => err = gerr[FirstFailed]

\* C3 amended: the returned error is the fixed error "Failed", which carries no
\* fetch error, and it reports the failed fetch of lowest input index: every
\* user before it was received successfully.
C3_FailedByInputIndex ==
    (Returned /\ ~err.nil) =>
        /\ err = ErrFailed
        /\ \A i \in Idx : err # gerr[i]
        /\ k \in FailedSoFar
        /\ \A j \in 1..(k - 1) : FetchState(j) = "Succeeded"

\* The failure reported is not the one that completed first.
C3_Witness ==
    /\ Returned /\ ~err.nil
    /\ FirstFailed # k

\* C4: once a user's FetchActivities has returned, its goroutine terminates:
\* the send on the channel and the close can always proceed, also after the
\* collector has returned, and the goroutine ends with its channel closed.
C4_NoGoroutineLeak ==
    /\ [](\A i \in Idx :
            /\ gpc[i] = "send" => ENABLED Send(i)
            /\ gpc[i] = "closing" => ENABLED Close(i)
            /\ gpc[i] = "done" => closed[i])
    /\ \A i \in 1..MaxUsers :
         (i \in Idx /\ gpc[i] \in {"send", "closing"}) ~> (i \in Idx /\ gpc[i] = "done")

\* A goroutine ended after the collector failed, its value never read.
C4_Witness ==
    /\ Returned /\ ~err.nil
    /\ \E i \in Idx : i > k /\ gpc[i] = "done" /\ cs[i] # <<>> /\ closed[i]

\* C5: under fair scheduling, if every user's FetchActivities returns, then
\* FetchUsersActivity returns.
C5_Terminates == (\A i \in Idx : ~Hangs(Token(i))) ~> Returned

\* A batch with a success and a failure has returned.
C5_Witness ==
    /\ Returned
    /\ N >= 2
    /\ \A i \in Idx : ~Hangs(Token(i))
    /\ \E i \in Idx : Fails(i)
    /\ \E i \in Idx : Succeeds(i)

\* C6 as stated: if the fetch of any one user never returns, FetchUsersActivity
\* never returns.
C6_AnyHangHangsBatch ==
    (\E h \in Idx : Hangs(Token(h))) => ~Returned

\* C6 amended: if the fetch of a user never returns and no user before it in
\* the input fails, FetchUsersActivity never returns.
C6_HangBeforeFailureHangsBatch ==
    (\E h \in Idx : Hangs(Token(h)) /\ \A j \in 1..(h - 1) : ~Fails(j)) => ~Returned

\* The collector waits on a hung fetch while a later user's fetch has failed
\* and every other goroutine is over.
C6_Witness ==
    /\ pc = "recv"
    /\ k <= N /\ Hangs(Token(k)) /\ gpc[k] = "fetching"
    /\ \E j \in Idx : j > k /\ j \in FailedSoFar
    /\ \A j \in Idx : j # k => gpc[j] = "done"

\* C7: FetchActivities is invoked exactly once per user, never retried; a
\* user's fetch state leaves Pending for Succeeded or Failed and then stays.
C7_FetchStateMachine ==
    /\ [](\A i \in Idx :
            /\ calls[i] <= 1
            /\ gpc[i] \notin {"none", "ready"} => calls[i] = 1
            /\ FetchState(i) = "Succeeded" => Succeeds(i)
            /\ FetchState(i) = "Failed" => Fails(i))
    /\ [][\A i \in Idx : FetchState(i) # "Pending" => FetchState(i)' = FetchState(i)]_vars
    /\ \A i \in 1..MaxUsers : <>(i \notin Idx \/ calls[i] = 1)

\* One fetch has succeeded, another has failed, each after one invocation.
C7_Witness ==
    /\ \E i \in Idx : FetchState(i) = "Succeeded" /\ calls[i] = 1
    /\ \E i \in Idx : FetchState(i) = "Failed" /\ calls[i] = 1
    /\ \A i \in Idx : gpc[i] = "done"

\* C8: starting a goroutine and starting its fetch never wait for another
\* fetch, and the collector receives only after all goroutines are launched.
C8_EagerFanOut ==
    /\ (pc = "launch" /\ k <= N) => ENABLED Launch
    /\ \A i \in Idx : gpc[i] = "ready" => ENABLED Call(i)
    /\ pc = "launch" => result = <<>>
    /\ pc # "launch" => \A i \in Idx : gpc[i] # "none"

\* All fetches of a full batch are outstanding at once.
C8_Witness ==
    /\ N = MaxUsers
    /\ pc = "recv" /\ k = 1
    /\ \A i \in Idx : gpc[i] = "fetching"

\* The weeks of actsA: one run in the week of 2018-03-03, one in the next.
weeksA ==
    << [Date |-> saturday, Count |-> 1, Distance |-> long, Time |-> 1320],
       [Date |-> nextSaturday, Count |-> 1, Distance |-> short, Time |-> 3600] >>

C10_HistoryFailsAsWhole ==
    (pc = "done" /\ \E i \in Idx : Fails(i)) =>
        /\ umt = <<>>
        /\ ~herr.nil

\* The first user's list was fetched and received, the second user failed.
C10_Witness ==
    /\ pc = "done"
    /\ N >= 2
    /\ Succeeds(1) /\ gpc[1] = "done" /\ cs[1] = <<>>
    /\ 2 \in FailedSoFar
    /\ umt = <<>>

\* ------------------------------------------- PreviousSaturday on its own
Offsets == (-MaxOffset)..MaxOffset

\* The instants from 2018-03-03 00:00 UTC on, in every zone of Offsets.
Instants ==
    { Time(saturday.abs + h, off) : h \in 0..(MaxDays * HoursPerDay - 1), off \in Offsets }

WeekInit ==
    /\ d \in Instants
    /\ weekStart = Time(0, 0)
    /\ wpc = "call"
    /\ FanIdle
    /\ SumIdle

\* weekStart := PreviousSaturday(d)
PreviousSaturdayCall ==
    /\ wpc = "call"
    /\ weekStart' = PreviousSaturday(d)
    /\ wpc' = "done"
    /\ UNCHANGED << d, fanVars, sumVars >>

WeekNext == PreviousSaturdayCall

WeekSpec == WeekInit /\ [][WeekNext]_vars

\* The calendar day of t in its own zone, counted from the zero time.
LocalDay(t) == (t.abs + t.off) \div HoursPerDay

\* Day of the week of a calendar day, Sunday = 0 .. Saturday = 6.
DayOfWeek(day) == (day + 1) % 7

\* 00:00 of a calendar day in the zone of offset off.
LocalMidnight(day, off) == Time(day * HoursPerDay - off, off)

\* The calendar day of the Saturday on or before a calendar day.
SaturdayOnOrBefore(day) == day - ((DayOfWeek(day) + 1) % 7)

\* C11: PreviousSaturday(d) is midnight, in d's own zone, of d's calendar day
\* when that day is a Saturday and of the most recent Saturday before it
\* otherwise, in every zone.
C11_WeekStartPolicy ==
    wpc = "done" =>
        weekStart = LocalMidnight(SaturdayOnOrBefore(LocalDay(d)), d.off)

\* C12: two instants of the same calendar day (same zone) have the same
\* PreviousSaturday.
C12_TimeOfDayIndependent ==
    wpc = "done" =>
        \A y \in Instants :
            (y.off = d.off /\ LocalDay(y) = LocalDay(d)) => PreviousSaturday(y) = weekStart

\* C13: PreviousSaturday applied to the week start of an instant at midnight
\* returns that week start again.
C13_Idempotent ==
    (wpc = "done" /\ d = LocalMidnight(LocalDay(d), d.off)) =>
        PreviousSaturday(weekStart) = weekStart

\* ------------------------------------- ComputeWeeklySummaries on its own
\* The activities the input slices are made of: the runs and the ride of
\* TestMarathon (UTC), three runs two hours east of UTC around the end of
\* Saturday 2018-03-03 in that zone, and a run at the instant of the Monday
\* run but in the eastern zone; and a nil entry.
ActPool ==
    { NilActivity,
      run(Add(saturday, afternoon), 1320, long),
      run(Add(monday, morning), 1200, short),
      run(Add(nextSaturday, morning), 1260, long),
      ride(Add(saturday, morning), 1200, short),
      run(Time(saturday.abs + 21, 2), 600, short),
      run(Time(saturday.abs + 22, 2), 660, long),
      run(Time(saturday.abs + 24, 2), 720, short),
      run(Time(monday.abs + morning, 2), 780, long) }

ActsUpTo(n) == UNION { [1..m -> ActPool] : m \in 0..n }

SumInit ==
    /\ activities \in ActsUpTo(MaxActs)
    /\ input = activities
    /\ runs = <<>>
    /\ summaries = <<>>
    /\ spc = "filter"
    /\ FanIdle
    /\ WeekIdle

\* The first loop reaches a nil entry: act.Type dereferences a nil pointer
\* and the call panics.
CWSNilEntry ==
    /\ spc = "filter"
    /\ \E i \in DOMAIN activities : activities[i] = NilActivity
    /\ spc' = "panic"
    /\ UNCHANGED << activities, input, runs, summaries, fanVars, weekVars >>

\* The first loop: runs collects the activities of type Run.
CWSFilter ==
    /\ spc = "filter"
    /\ \A i \in DOMAIN activities : activities[i] # NilActivity
    /\ runs' = FilterRuns(activities)
    /\ spc' = "check"
    /\ UNCHANGED << activities, input, summaries, fanVars, weekVars >>

\* A call that returns one entry of count 0 when there is no run.
CWSNoRunsZeroEntry ==
    /\ spc = "check"
    /\ Len(runs) = 0
    /\ summaries' = << [Date |-> Time(0, 0), Count |-> 0, Distance |-> 0, Time |-> 0] >>
    /\ spc' = "done"
    /\ UNCHANGED << activities, input, runs, fanVars, weekVars >>

\* if len(runs) == 0 { return nil }
CWSNoRuns ==
    /\ spc = "check"
    /\ Len(runs) = 0
    /\ summaries' = <<>>
    /\ spc' = "done"
    /\ UNCHANGED << activities, input, runs, fanVars, weekVars >>

\* A call that sorts the slice it was given.
CWSSortInPlace ==
    /\ spc = "check"
    /\ Len(runs) # 0
    /\ activities' = SortByStartDate(activities)
    /\ runs' = SortByStartDate(runs)
    /\ spc' = "bucket"
    /\ UNCHANGED << input, summaries, fanVars, weekVars >>

\* sort.Slice(runs, ...): sorts the local slice, whose backing array was
\* allocated by append and is not the caller's.
CWSSort ==
    /\ spc = "check"
    /\ Len(runs) # 0
    /\ runs' = SortByStartDate(runs)
    /\ spc' = "bucket"
    /\ UNCHANGED << activities, input, summaries, fanVars, weekVars >>

\* The weeks of the sorted runs and their summaries.
SummariseWeeks(sorted) ==
    LET allWeeks == BucketWeeks(sorted, PreviousSaturday(sorted[1].StartDate), <<>>, <<>>)
    IN  [n \in 1..Len(allWeeks) |-> Summarise(allWeeks[n])]

\* The bucketing loop and the summary loop; the call returns.
CWSBucket ==
    /\ spc = "bucket"
    /\ summaries' = SummariseWeeks(runs)
    /\ spc' = "done"
    /\ UNCHANGED << activities, input, runs, fanVars, weekVars >>

SumNext ==
    \/ CWSNilEntry
    \/ CWSFilter
    \/ CWSNoRuns
    \/ CWSSort
    \/ CWSBucket

SumSpec == SumInit /\ [][SumNext]_vars

\* The steps compute what the operator ComputeWeeklySummaries computes.
StepsAgree == spc = "done" => summaries = ComputeWeeklySummaries(input)

IsRun(a) == a.Type = Run

\* The indices of the runs of the input.
RunIdx == { i \in DOMAIN input : IsRun(input[i]) }

\* The week starts returned.
Dates == { summaries[n].Date : n \in DOMAIN summaries }

\* C14: the weeks returned are in strictly ascending Date order, no two of
\* them with the same Date, whatever the order and the zones of the input.
C14_StrictlyAscending ==
    spc = "done" =>
        \A n \in 1..(Len(summaries) - 1) :
            Before(summaries[n].Date, summaries[n + 1].Date)

\* C15: the Dates returned are exactly the week starts of the runs of the
\* input; a week without a run does not appear and no entry has Count 0.
C15_WeekSetExact ==
    spc = "done" =>
        /\ Dates = { PreviousSaturday(input[i].StartDate) : i \in RunIdx }
        /\ \A n \in DOMAIN summaries : summaries[n].Count >= 1

\* A week that holds only a ride is left out while a later week is reported.
C15_Witness ==
    /\ spc = "done"
    /\ summaries # <<>>
    /\ \E i \in DOMAIN input :
         /\ ~IsRun(input[i])
         /\ PreviousSaturday(input[i].StartDate) \notin Dates
         /\ \A n \in DOMAIN summaries :
              Before(PreviousSaturday(input[i].StartDate), summaries[n].Date)

RECURSIVE SumOver(_, _)
SumOver(S, f) ==
    IF S = {} THEN 0
    ELSE LET i == CHOOSE j \in S : TRUE IN f[i] + SumOver(S \ {i}, f)

\* The indices of the runs of the input whose week start is date.
RunsOfWeek(date) ==
    { i \in RunIdx : PreviousSaturday(input[i].StartDate) = date }

\* C16: every entry returned counts the runs of the input whose week start is
\* its Date, and carries the sums of their elapsed times and distances.
C16_PerWeekTotals ==
    spc = "done" =>
        \A n \in DOMAIN summaries :
            LET W == RunsOfWeek(summaries[n].Date)
            IN  /\ summaries[n].Count = Cardinality(W)
                /\ summaries[n].Time = SumOver(W, [i \in DOMAIN input |-> input[i].ElapsedTime])
                /\ summaries[n].Distance = SumOver(W, [i \in DOMAIN input |-> input[i].Distance])

\* The input without its activities of another type than Run.
OnlyRuns(acts) == SelectSeq(acts, IsRun)

\* C17: activities that are not runs change nothing: the result is the result
\* for the input without them, and it is empty when the input has no run.
C17_KindFilter ==
    spc = "done" =>
        /\ summaries = ComputeWeeklySummaries(OnlyRuns(input))
        /\ RunIdx = {} => summaries = <<>>
        /\ \A n \in DOMAIN summaries : summaries[n].Count <= Cardinality(RunIdx)

\* A ride and a run were summarised.
C17_Witness ==
    /\ spc = "done"
    /\ \E i \in DOMAIN input : ~IsRun(input[i])
    /\ RunIdx # {}
    /\ summaries # <<>>

\* C18: for a nil or zero-length input the result is empty.
C18_EmptyInput ==
    (spc = "done" /\ Len(input) = 0) => summaries = <<>>

\* The call on the empty input has returned.
C18_Witness ==
    /\ spc = "done"
    /\ input = <<>>
    /\ runs = <<>>
    /\ summaries = <<>>

\* The permutations of a sequence.
Reorderings(seq) ==
    { [i \in DOMAIN seq |-> seq[f[i]]] :
        f \in { g \in [DOMAIN seq -> DOMAIN seq] : \A i, j \in DOMAIN seq : g[i] = g[j] => i = j } }

\* C19: every permutation of the input gives the same result.
C19_OrderIndependent ==
    spc = "done" =>
        \A p \in Reorderings(input) : ComputeWeeklySummaries(p) = summaries

\* C20: the call leaves the caller's slice as it was.
C20_ArgumentUnchanged == activities = input

\* The call has sorted runs that were passed out of order.
C20_Witness ==
    /\ spc = "done"
    /\ Len(summaries) >= 2
    /\ \E i \in DOMAIN input : \E j \in DOMAIN input :
         i < j /\ IsRun(input[i]) /\ IsRun(input[j])
         /\ Before(input[j].StartDate, input[i].StartDate)
    /\ activities = input

\* C21: ComputeWeeklySummaries returns normally for every input slice, a
\* slice with nil entries included: no call ends in a panic.
C21_NoErrorPath == spc # "panic"

\* C24: PreviousSaturday is monotone: for all instants x <= y, in whatever
\* zones, PreviousSaturday(y) is not before PreviousSaturday(x).
C24_Monotone ==
    wpc = "done" =>
        \A y \in Instants :
            ~Before(y, d) => ~Before(PreviousSaturday(y), weekStart)

\* ------------------------- DoAsync, FetchUsersActivity2, FetchUsersActivity3
\* The three fan-outs built on a sync.WaitGroup.  DoAsync is run with
\* inputs = users and f = the fetch of a user's activities.
WgVariants == {"DoAsync", "FetchUsersActivity2", "FetchUsersActivity3"}

\* What no step of these functions changes.
wgFixed == << weekVars, sumVars, users, variant, cs, closed, umt, herr, gres, mts, hclosed >>

\* wg.Add(len(users)); the channels and the result slots are made.
WgInit ==
    /\ variant \in WgVariants
    /\ users \in UsersUpTo(MaxUsers)
    /\ pc = "launch"
    /\ k = 1
    /\ gpc = [i \in DOMAIN users |-> "none"]
    /\ gacts = [i \in DOMAIN users |-> <<>>]
    /\ gerr = [i \in DOMAIN users |-> NilError]
    /\ cs = <<>>
    /\ closed = <<>>
    /\ result = <<>>
    /\ err = NilError
    /\ umt = <<>>
    /\ herr = NilError
    /\ calls = [i \in DOMAIN users |-> 0]
    /\ completed = <<>>
    /\ wg = Len(users)
    /\ fail = <<>>
    /\ failSent = <<>>
    /\ wclosed = FALSE
    /\ rchan = <<>>
    /\ slots = [i \in DOMAIN users |-> <<>>]
    /\ gres = <<>>
    /\ mts = <<>>
    /\ hclosed = FALSE
    /\ WeekIdle
    /\ SumIdle

\* One iteration of the range loop: go func(i, u).
WgLaunch ==
    /\ variant \in WgVariants
    /\ pc = "launch"
    /\ k <= N
    /\ gpc' = [gpc EXCEPT ![k] = "ready"]
    /\ k' = k + 1
    /\ UNCHANGED << wgFixed, pc, gacts, gerr, result, err, calls, completed, wg, fail,
                    failSent, wclosed, rchan, slots >>

\* The loop is over: the caller reaches wg.Wait().
WgLaunchDone ==
    /\ variant \in WgVariants
    /\ pc = "launch"
    /\ k > N
    /\ pc' = "wait"
    /\ UNCHANGED << wgFixed, k, gpc, gacts, gerr, result, err, calls, completed, wg, fail,
                    failSent, wclosed, rchan, slots >>

\* The goroutine calls f(in) / fetcher.FetchActivities(u.StravaToken).
WgCall(i) ==
    /\ variant \in WgVariants
    /\ gpc[i] = "ready"
    /\ gpc' = [gpc EXCEPT ![i] = "fetching"]
    /\ calls' = [calls EXCEPT ![i] = calls[i] + 1]
    /\ UNCHANGED << wgFixed, pc, k, gacts, gerr, result, err, completed, wg, fail,
                    failSent, wclosed, rchan, slots >>

\* The invocation returns with err == nil.
WgReturnOk(i) ==
    /\ variant \in WgVariants
    /\ gpc[i] = "fetching"
    /\ ~Hangs(users[i].StravaToken)
    /\ LET r == FetchActivities(users[i].StravaToken, i)
       IN  /\ r.err.nil
           /\ gacts' = [gacts EXCEPT ![i] = r.acts]
    /\ gpc' = [gpc EXCEPT ![i] = "store"]
    /\ completed' = Append(completed, i)
    /\ UNCHANGED << wgFixed, pc, k, gerr, result, err, calls, wg, fail, failSent, wclosed,
                    rchan, slots >>

\* The invocation returns with err != nil.
WgReturnErr(i) ==
    /\ variant \in WgVariants
    /\ gpc[i] = "fetching"
    /\ ~Hangs(users[i].StravaToken)
    /\ LET r == FetchActivities(users[i].StravaToken, i)
       IN  /\ ~r.err.nil
           /\ gerr' = [gerr EXCEPT ![i] = r.err]
    /\ gpc' = [gpc EXCEPT ![i] = "sendfail"]
    /\ completed' = Append(completed, i)
    /\ UNCHANGED << wgFixed, pc, k, gacts, result, err, calls, wg, fail, failSent, wclosed,
                    rchan, slots >>

\* fail <- err; return.  The send waits while the buffer of len(users) is full.
WgSendFail(i) ==
    /\ variant \in WgVariants
    /\ gpc[i] = "sendfail"
    /\ Len(fail) < N
    /\ fail' = Append(fail, gerr[i])
    /\ failSent' = Append(failSent, i)
    /\ gpc' = [gpc EXCEPT ![i] = "exit"]
    /\ UNCHANGED << wgFixed, pc, k, gacts, gerr, result, err, calls, completed, wg, wclosed,
                    rchan, slots >>

\* A goroutine that stores its output in the slot after its own.
WgStoreNextSlot(i) ==
    /\ variant \in WgVariants
    /\ gpc[i] = "store"
    /\ IF variant = "FetchUsersActivity2"
       THEN /\ Len(rchan) < N
            /\ rchan' = Append(rchan, [i |-> (i % N) + 1, acts |-> gacts[i]])
            /\ UNCHANGED slots
       ELSE /\ slots' = [slots EXCEPT ![(i % N) + 1] = << gacts[i] >>]
            /\ UNCHANGED rchan
    /\ gpc' = [gpc EXCEPT ![i] = "exit"]
    /\ UNCHANGED << wgFixed, pc, k, gacts, gerr, result, err, calls, completed, wg, fail,
                    failSent, wclosed >>

\* result[i] = out (DoAsync), m.Store(i, act) (FetchUsersActivity3),
\* rchan <- resp{i, act} (FetchUsersActivity2, buffer of len(users)).
WgStore(i) ==
    /\ variant \in WgVariants
    /\ gpc[i] = "store"
    /\ IF variant = "FetchUsersActivity2"
       THEN /\ Len(rchan) < N
            /\ rchan' = Append(rchan, [i |-> i, acts |-> gacts[i]])
            /\ UNCHANGED slots
       ELSE /\ slots' = [slots EXCEPT ![i] = << gacts[i] >>]
            /\ UNCHANGED rchan
    /\ gpc' = [gpc EXCEPT ![i] = "exit"]
    /\ UNCHANGED << wgFixed, pc, k, gacts, gerr, result, err, calls, completed, wg, fail,
                    failSent, wclosed >>

\* defer wg.Done(): the goroutine is over.
WgDone(i) ==
    /\ variant \in WgVariants
    /\ gpc[i] = "exit"
    /\ wg' = wg - 1
    /\ gpc' = [gpc EXCEPT ![i] = "done"]
    /\ UNCHANGED << wgFixed, pc, k, gacts, gerr, result, err, calls, completed, fail,
                    failSent, wclosed, rchan, slots >>

\* A caller that closes the channel without waiting for the goroutines.
WgNoWait ==
    /\ variant \in WgVariants
    /\ pc = "wait"
    /\ wclosed' = TRUE
    /\ pc' = "check"
    /\ UNCHANGED << wgFixed, k, gpc, gacts, gerr, result, err, calls, completed, wg, fail,
                    failSent, rchan, slots >>

\* wg.Wait() returns once the counter is zero; then close(fail), or
\* close(rchan) in FetchUsersActivity2.
WgWait ==
    /\ variant \in WgVariants
    /\ pc = "wait"
    /\ wg = 0
    /\ wclosed' = TRUE
    /\ pc' = "check"
    /\ UNCHANGED << wgFixed, k, gpc, gacts, gerr, result, err, calls, completed, wg, fail,
                    failSent, rchan, slots >>

\* A caller that reports the failure of the lowest input index.
WgFailLowestIndex ==
    /\ variant \in WgVariants
    /\ pc = "check"
    /\ fail # <<>>
    /\ LET f == CHOOSE i \in Idx : ~gerr[i].nil /\ \A j \in 1..(i - 1) : gerr[j].nil
       IN  err' = gerr[f]
    /\ fail' = Tail(fail)
    /\ result' = <<>>
    /\ pc' = "returned"
    /\ UNCHANGED << wgFixed, k, gpc, gacts, gerr, calls, completed, wg, failSent, wclosed,
                    rchan, slots >>

\* err := <-fail with a buffered error (DoAsync, FetchUsersActivity3), or the
\* case err := <-fail of the select (FetchUsersActivity2): return nil, err.
WgFail ==
    /\ variant \in WgVariants
    /\ pc = "check"
    /\ fail # <<>>
    /\ err' = Head(fail)
    /\ fail' = Tail(fail)
    /\ result' = <<>>
    /\ pc' = "returned"
    /\ UNCHANGED << wgFixed, k, gpc, gacts, gerr, calls, completed, wg, failSent, wclosed,
                    rchan, slots >>

\* The value of a slot: nil while nothing was stored in it.
SlotValue(slot) == IF slot = <<>> THEN <<>> ELSE slot[1]

\* A loop over rchan that appends the responses as they come.
RchanResultByArrival(responses, n) == [j \in 1..Len(responses) |-> responses[j].acts]

\* result := make(..., n); for r := range rchan { result[r.i] = r.acts }
RchanResult(responses, n) ==
    [j \in 1..n |->
        IF \E m \in 1..Len(responses) : responses[m].i = j
        THEN LET last == CHOOSE m \in 1..Len(responses) :
                            /\ responses[m].i = j
                            /\ \A l \in (m + 1)..Len(responses) : responses[l].i # j
             IN  responses[last].acts
        ELSE <<>>]

\* The receive from the closed, empty fail gives nil (DoAsync,
\* FetchUsersActivity3), or the select takes default (FetchUsersActivity2):
\* the result is assembled and returned.
WgCollect ==
    /\ variant \in WgVariants
    /\ pc = "check"
    /\ fail = <<>>
    /\ err' = NilError
    /\ IF variant = "FetchUsersActivity2"
       THEN /\ result' = RchanResult(rchan, N)
            /\ rchan' = <<>>
       ELSE /\ result' = [j \in 1..N |-> SlotValue(slots[j])]
            /\ UNCHANGED rchan
    /\ pc' = "returned"
    /\ UNCHANGED << wgFixed, k, gpc, gacts, gerr, calls, completed, wg, fail, failSent,
                    wclosed, slots >>

WgNext ==
    \/ WgLaunch
    \/ WgLaunchDone
    \/ WgWait
    \/ WgFail
    \/ WgCollect
    \/ \E i \in Idx : WgCall(i)
    \/ \E i \in Idx : WgReturnOk(i)
    \/ \E i \in Idx : WgReturnErr(i)
    \/ \E i \in Idx : WgSendFail(i)
    \/ \E i \in Idx : WgStore(i)
    \/ \E i \in Idx : WgDone(i)

WgSpec == WgInit /\ [][WgNext]_vars

\* The scheduler runs every runnable goroutine and the caller: a step that
\* can be taken is taken eventually.
WgFairSpec == WgSpec /\ WF_vars(WgNext)

\* FetchUsersActivity and the WaitGroup fan-outs side by side: a call of
\* either, step by step.
BothInit == Init \/ WgInit

BothNext ==
    \/ variant = "" /\ Next
    \/ variant \in WgVariants /\ WgNext

BothSpec == BothInit /\ [][BothNext]_vars

\* C22: in FetchUsersActivity a value enters channel i only by a step of
\* goroutine i leaving its send, which it never reaches again; the channel is
\* closed only by goroutine i's last step; a value leaves channel i only by
\* the collector's receive at index i, after which the collector is past i.
\* In DoAsync result[i] changes only by the store of goroutine i, and once the
\* caller is past wg.Wait no goroutine has a store left to do.
C22_PrivateSlots ==
    /\ [][\A i \in DOMAIN cs :
            /\ Len(cs'[i]) > Len(cs[i]) => gpc[i] = "send" /\ gpc'[i] = "closing"
            /\ gpc[i] \in {"closing", "done"} => gpc'[i] \in {"closing", "done"}
            /\ closed'[i] # closed[i] =>
                   ~closed[i] /\ gpc[i] = "closing" /\ gpc'[i] = "done"
            /\ gpc[i] = "done" => gpc'[i] = "done"
            /\ Len(cs'[i]) < Len(cs[i]) => pc = "recv" /\ k = i /\ k' = i + 1
            /\ (pc = "recv" /\ k > i) => (pc' # "recv" \/ k' > i)]_vars
    /\ [][variant = "DoAsync" =>
            \A i \in DOMAIN slots :
                slots'[i] # slots[i] =>
                    gpc[i] = "store" /\ gpc'[i] = "exit" /\ slots[i] = <<>>]_vars
    /\ [](variant = "DoAsync" /\ pc \in {"check", "returned"} =>
            \A i \in Idx : gpc[i] = "done")

\* DoAsync returned the outputs of two invocations, the second of which
\* returned first.
C22_Witness ==
    /\ variant = "DoAsync"
    /\ pc = "returned"
    /\ err.nil
    /\ N >= 2
    /\ completed[1] = 2
    /\ result[1] # result[2]

\* The result of a call is a function of its users.
ExpectedErr == IF \E i \in Idx : Fails(i) THEN ErrFailed ELSE NilError

ExpectedActs == IF \E i \in Idx : Fails(i) THEN <<>> ELSE [i \in Idx |-> Outcome(i).acts]

ExpectedReports ==
    IF \E i \in Idx : Fails(i) THEN <<>>
    ELSE [i \in Idx |->
            [Name |-> users[i].FirstName,
             Weeks |-> ComputeWeeklySummaries(Outcome(i).acts)]]

\* C23: what FetchUsersActivity and FetchUserHistory return is determined by
\* the users and the fetcher's fixed outcome per token: every call on the same
\* users that returns, returns the same lists (reports) and the same error,
\* whatever the interleaving of the goroutines.
C23_Deterministic ==
    /\ (variant = "" /\ Returned) => (err = ExpectedErr /\ result = ExpectedActs)
    /\ (variant = "" /\ pc = "done") => (herr = ExpectedErr /\ umt = ExpectedReports)

\* FetchUserHistory returned two different reports and the second user's
\* fetch completed first.
C23_Witness ==
    /\ variant = ""
    /\ pc = "done"
    /\ herr.nil
    /\ N >= 2
    /\ completed[1] = 2
    /\ umt[1] # umt[2]

\* C25: when DoAsync, FetchUsersActivity2 or FetchUsersActivity3 returns, then
\* if no invocation failed the result has len(users) elements and element i
\* is the output for input i, and if one failed the result is nil and the
\* error is not.
C25_AltContract ==
    (variant \in WgVariants /\ pc = "returned") =>
        IF \E i \in Idx : Fails(i)
        THEN result = <<>> /\ ~err.nil
        ELSE /\ err.nil
             /\ Len(result) = N
             /\ \A i \in Idx : result[i] = Outcome(i).acts

\* FetchUsersActivity2 returned two different lists and the second response
\* was sent on rchan first.
C25_Witness ==
    /\ variant = "FetchUsersActivity2"
    /\ pc = "returned"
    /\ err.nil
    /\ N >= 2
    /\ completed[1] = 2
    /\ result[1] # result[2]

\* C26 as stated: the error returned is the error of the failing invocation
\* that returned first, and no send on fail or rchan ever waits.
C26_FirstCompletedFailure ==
    /\ (variant \in WgVariants /\ pc = "returned" /\ ~err.nil) => err = gerr[FirstFailed]
    /\ variant \in WgVariants =>
          \A i \in Idx :
              /\ gpc[i] = "sendfail" => Len(fail) < N
              /\ (gpc[i] = "store" /\ variant = "FetchUsersActivity2") => Len(rchan) < N

\* C26: the error returned is the error that was sent first on fail, whatever
\* its input index, and no send on fail or rchan ever waits.
C26_FirstSentFailure ==
    /\ (variant \in WgVariants /\ pc = "returned" /\ ~err.nil) => err = gerr[failSent[1]]
    /\ variant \in WgVariants =>
          \A i \in Idx :
              /\ gpc[i] = "sendfail" => Len(fail) < N
              /\ (gpc[i] = "store" /\ variant = "FetchUsersActivity2") => Len(rchan) < N

\* Two invocations failed, the second sent its error first and that error is
\* the one returned.
C26_Witness ==
    /\ variant \in WgVariants
    /\ pc = "returned"
    /\ Len(failSent) = 2
    /\ failSent[1] = 2
    /\ err = gerr[2]
    /\ err # gerr[1]

\* C27: while an invocation has not returned and its goroutine is not over,
\* the caller is not past wg.Wait: it returns, with a result or with an
\* error, only when every goroutine is done; and if no invocation hangs the
\* call returns.
C27_WaitsForAll ==
    /\ [](variant \in WgVariants /\ pc \in {"check", "returned"} =>
            \A i \in Idx : gpc[i] = "done")
    /\ (variant \in WgVariants /\ \A i \in Idx : ~Hangs(Token(i))) ~> pc = "returned"

\* A call with a failed and a successful invocation
\* returned, the failed one having returned first.
C27_Witness ==
    /\ variant \in WgVariants
    /\ pc = "returned"
    /\ N >= 2
    /\ Fails(1)
    /\ Succeeds(2)
    /\ completed[1] = 1

\* C30: when every fetch succeeds FetchUsersActivity returns a nil error and
\* all the lists, and the list of a user whose fetch gave nil is empty.
C30_EmptyIsNotFailure ==
    (variant = "" /\ Returned /\ \A i \in Idx : Succeeds(i)) =>
        /\ err.nil
        /\ Len(result) = N
        /\ \A i \in Idx : Outcome(i).acts = <<>> => result[i] = <<>>

\* A batch of a user without activities and a user with some has returned.
C30_Witness ==
    /\ variant = ""
    /\ Returned
    /\ N >= 2
    /\ Token(1) = "empty"
    /\ Token(2) = "a"
    /\ err.nil
    /\ result[1] = <<>>
    /\ result[2] # <<>>

\* ------------------------------------------------------- FetchUserHistory2
\* What no step of FetchUserHistory2 changes.
h2Fixed == << weekVars, sumVars, users, variant, cs, closed, result, err, wg, fail,
              failSent, wclosed, rchan, slots >>

\* results := make(chan *UserMarathonTracking); the deferred close is
\* registered.  A pointer is a sequence: <<>> is nil, << r >> points to r.
H2Init ==
    /\ variant = "FetchUserHistory2"
    /\ users \in UsersUpTo(MaxUsers)
    /\ pc = "launch"
    /\ k = 1
    /\ gpc = [i \in DOMAIN users |-> "none"]
    /\ gacts = [i \in DOMAIN users |-> <<>>]
    /\ gerr = [i \in DOMAIN users |-> NilError]
    /\ gres = [i \in DOMAIN users |-> <<>>]
    /\ cs = <<>>
    /\ closed = <<>>
    /\ result = <<>>
    /\ err = NilError
    /\ umt = <<>>
    /\ herr = NilError
    /\ calls = [i \in DOMAIN users |-> 0]
    /\ completed = <<>>
    /\ wg = 0
    /\ fail = <<>>
    /\ failSent = <<>>
    /\ wclosed = FALSE
    /\ rchan = <<>>
    /\ slots = <<>>
    /\ mts = <<>>
    /\ hclosed = FALSE
    /\ WeekIdle
    /\ SumIdle

\* One iteration of the range loop: go func(u).
H2Launch ==
    /\ variant = "FetchUserHistory2"
    /\ pc = "launch"
    /\ k <= N
    /\ gpc' = [gpc EXCEPT ![k] = "ready"]
    /\ k' = k + 1
    /\ UNCHANGED << h2Fixed, pc, gacts, gerr, gres, umt, herr, calls, completed, mts, hclosed >>

\* The range loop is over; the collecting loop starts with i = 0.
H2LaunchDone ==
    /\ variant = "FetchUserHistory2"
    /\ pc = "launch"
    /\ k > N
    /\ pc' = "collect"
    /\ k' = 1
    /\ UNCHANGED << h2Fixed, gpc, gacts, gerr, gres, umt, herr, calls, completed, mts, hclosed >>

\* The goroutine calls fetcher.FetchActivities(u.StravaToken).
H2Call(i) ==
    /\ variant = "FetchUserHistory2"
    /\ gpc[i] = "ready"
    /\ gpc' = [gpc EXCEPT ![i] = "fetching"]
    /\ calls' = [calls EXCEPT ![i] = calls[i] + 1]
    /\ UNCHANGED << h2Fixed, pc, k, gacts, gerr, gres, umt, herr, completed, mts, hclosed >>

\* FetchActivities returns with err == nil.
H2ReturnOk(i) ==
    /\ variant = "FetchUserHistory2"
    /\ gpc[i] = "fetching"
    /\ ~Hangs(users[i].StravaToken)
    /\ LET r == FetchActivities(users[i].StravaToken, i)
       IN  /\ r.err.nil
           /\ gacts' = [gacts EXCEPT ![i] = r.acts]
    /\ gpc' = [gpc EXCEPT ![i] = "compute"]
    /\ completed' = Append(completed, i)
    /\ UNCHANGED << h2Fixed, pc, k, gerr, gres, umt, herr, calls, mts, hclosed >>

\* FetchActivities returns with err != nil: the error is logged and the
\* goroutine returns with result == nil.
H2ReturnErr(i) ==
    /\ variant = "FetchUserHistory2"
    /\ gpc[i] = "fetching"
    /\ ~Hangs(users[i].StravaToken)
    /\ LET r == FetchActivities(users[i].StravaToken, i)
       IN  /\ ~r.err.nil
           /\ gerr' = [gerr EXCEPT ![i] = r.err]
    /\ gpc' = [gpc EXCEPT ![i] = "send"]
    /\ completed' = Append(completed, i)
    /\ UNCHANGED << h2Fixed, pc, k, gacts, gres, umt, herr, calls, mts, hclosed >>

\* The weeks of actsB: its one run, in the week of 2018-03-03.
weeksB == << [Date |-> saturday, Count |-> 1, Distance |-> short, Time |-> 1200] >>

\* weeksA and weeksB are what ComputeWeeklySummaries computes for the two
\* lists the fetcher serves.
WeeksTabulated ==
    /\ weeksA = ComputeWeeklySummaries(actsA)
    /\ weeksB = ComputeWeeklySummaries(actsB)

\* ComputeWeeklySummaries(acts), the summaries of the two lists the fetcher
\* serves being looked up rather than computed again at every step.
WeeklySummariesOf(acts) ==
    IF acts = actsA THEN weeksA
    ELSE IF acts = actsB THEN weeksB
    ELSE ComputeWeeklySummaries(acts)

\* mt := ComputeWeeklySummaries(acts); name := u.FirstName;
\* result = &UserMarathonTracking{Name: name, Weeks: mt}.
H2Compute(i) ==
    /\ variant = "FetchUserHistory2"
    /\ gpc[i] = "compute"
    /\ gres' = [gres EXCEPT ![i] =
                  << [Name |-> users[i].FirstName, Weeks |-> WeeklySummariesOf(gacts[i])] >>]
    /\ gpc' = [gpc EXCEPT ![i] = "send"]
    /\ UNCHANGED << h2Fixed, pc, k, gacts, gerr, umt, herr, calls, completed, mts, hclosed >>

ErrNoTracking == NewError("couldn't fetch marathon tracking data", 0)

\* A collector that returns as soon as it receives a nil result.
H2HandoffStopAtNil(i) ==
    /\ variant = "FetchUserHistory2"
    /\ pc = "collect"
    /\ k <= N
    /\ gpc[i] = "send"
    /\ ~hclosed
    /\ gpc' = [gpc EXCEPT ![i] = "done"]
    /\ IF gres[i] = <<>>
       THEN /\ herr' = ErrNoTracking
            /\ umt' = <<>>
            /\ hclosed' = TRUE
            /\ pc' = "done"
            /\ UNCHANGED << k, mts >>
       ELSE /\ mts' = Append(mts, gres[i])
            /\ k' = k + 1
            /\ UNCHANGED << herr, umt, hclosed, pc >>
    /\ UNCHANGED << h2Fixed, gacts, gerr, gres, calls, completed >>

\* The deferred results <- result of goroutine i meets the collector's
\* result := <-results (the channel is unbuffered): the value is handed over,
\* the goroutine is over and the collector finishes its iteration.
H2Handoff(i) ==
    /\ variant = "FetchUserHistory2"
    /\ pc = "collect"
    /\ k <= N
    /\ gpc[i] = "send"
    /\ ~hclosed
    /\ gpc' = [gpc EXCEPT ![i] = "done"]
    /\ herr' = IF gres[i] = <<>> THEN ErrNoTracking ELSE herr
    /\ mts' = Append(mts, gres[i])
    /\ k' = k + 1
    /\ UNCHANGED << h2Fixed, pc, gacts, gerr, gres, umt, calls, completed, hclosed >>

\* The collecting loop is over: return nil, err or return mts, nil; the
\* deferred close(results) runs.
H2Return ==
    /\ variant = "FetchUserHistory2"
    /\ pc = "collect"
    /\ k > N
    /\ umt' = IF herr.nil THEN [j \in 1..Len(mts) |-> mts[j][1]] ELSE <<>>
    /\ hclosed' = TRUE
    /\ pc' = "done"
    /\ UNCHANGED << h2Fixed, k, gpc, gacts, gerr, gres, herr, calls, completed, mts >>

H2Next ==
    \/ H2Launch
    \/ H2LaunchDone
    \/ H2Return
    \/ \E i \in Idx : H2Call(i)
    \/ \E i \in Idx : H2ReturnOk(i)
    \/ \E i \in Idx : H2ReturnErr(i)
    \/ \E i \in Idx : H2Compute(i)
    \/ \E i \in Idx : H2Handoff(i)

H2Spec == H2Init /\ [][H2Next]_vars

\* The scheduler runs every runnable goroutine and the collector: a step that
\* can be taken is taken eventually.
H2FairSpec == H2Spec /\ WF_vars(H2Next)

\* C28: when every fetch succeeds, the i-th report FetchUserHistory2 returns
\* has the first name of users[i].
C28_History2InputOrder ==
    (variant = "FetchUserHistory2" /\ pc = "done" /\ herr.nil) =>
        /\ Len(umt) = N
        /\ \A i \in Idx : umt[i].Name = users[i].FirstName

\* The values sent on results so far: one by each goroutine that is over.
H2Sent == Cardinality({ i \in Idx : gpc[i] = "done" })

\* C29: in FetchUserHistory2 a goroutine is over exactly when it has sent its
\* one value, the collector has received as many values as were sent, and it
\* returns having received len(users) of them: at the return, and so at the
\* deferred close, every goroutine has sent and is over; and if no fetch
\* hangs the call returns.
C29_History2Channel ==
    /\ [](variant = "FetchUserHistory2" =>
            /\ pc = "collect" => (Len(mts) = H2Sent /\ k = Len(mts) + 1)
            /\ pc = "done" => (Len(mts) = N /\ H2Sent = N)
            /\ hclosed => \A i \in Idx : gpc[i] = "done")
    /\ [][variant = "FetchUserHistory2" =>
            \A i \in Idx :
                /\ gpc[i] = "done" => gpc'[i] = "done"
                /\ (gpc[i] # "done" /\ gpc'[i] = "done") =>
                       (gpc[i] = "send" /\ Len(mts') = Len(mts) + 1 /\ ~hclosed)]_vars
    /\ (variant = "FetchUserHistory2" /\ \A i \in Idx : ~Hangs(Token(i))) ~> pc = "done"

\* A call with a failed and a successful fetch has returned, the successful
\* goroutine having sent its report before the failed one sent nil.
C29_Witness ==
    /\ variant = "FetchUserHistory2"
    /\ pc = "done"
    /\ hclosed
    /\ N >= 2
    /\ ~herr.nil
    /\ mts[1] # <<>>
    /\ mts[2] = <<>>

\* C31: whenever ComputeWeeklySummaries returns, the Counts of the entries
\* add up to the number of runs of the input, their Times add up to the
\* elapsed seconds of those runs, and every entry has Count >= 1.
C31_Conservation ==
    spc = "done" =>
        /\ SumOver(DOMAIN summaries, [n \in DOMAIN summaries |-> summaries[n].Count])
               = Cardinality(RunIdx)
        /\ SumOver(DOMAIN summaries, [n \in DOMAIN summaries |-> summaries[n].Time])
               = SumOver(RunIdx, [i \in DOMAIN input |-> input[i].ElapsedTime])
        /\ \A n \in DOMAIN summaries : summaries[n].Count >= 1

\* Two entries were returned, one of them for two runs of different elapsed
\* times.
C31_Witness ==
    /\ spc = "done"
    /\ Len(summaries) = 2
    /\ \E n \in DOMAIN summaries : summaries[n].Count = 2
    /\ \E i \in RunIdx : \E j \in RunIdx : input[i].ElapsedTime # input[j].ElapsedTime

====
